---- MODULE Spec2Model ----
(***************************************************************************)
(* The RedToken PSP22 ledger of src/lib.rs as a state machine.             *)
(*                                                                         *)
(* The storage struct RedToken is the state; every #[ink(message)] of     *)
(* `impl PSP22 for RedToken` is one action that models the whole message:  *)
(* its checks in source order, its storage writes and the events it emits. *)
(* The caller (self.env().caller()) and the arguments are inputs.          *)
(***************************************************************************)
EXTENDS Integers, Sequences, FiniteSets, TLC

(* ---- bounds of the model ---- *)

\* Largest value of the type Balance in the model (u128::MAX in the build).
MaxAmount == 2

(* ---- types ---- *)

\* AccountId values: the all-zero account, a plain account, a contract account.
Accounts == {0, 1, 2}

\* AccountId::from([0u8; 32])
ZeroAddress == 0

\* Balance
Amounts == 0..MaxAmount

\* The number of values of Balance: unchecked arithmetic wraps modulo it.
Modulus == MaxAmount + 1

\* Vec<u8> payloads passed to transfer and transfer_from.
Datas == {<<1>>}

\* Arguments given to the constructor (the unit test builds
\* RedToken::new(100_000, AccountId::from([0x01; 32]), 5u8)).
InitSupplies == {0, MaxAmount}
Admins == {1}
Decimals == {5}

\* Option<AccountId>
None == <<"None">>
Some(a) == <<"Some", a>>

\* The account that can be a deployed contract.
Contracts == {2}

(* ---- state ---- *)

VARIABLES
    admin,           \* RedToken.admin
    total_supply,    \* RedToken.total_supply
    balances,        \* RedToken.balances; an absent key reads as 0
    allowances,      \* RedToken.allowances, keyed by <<owner, spender>>
    token_name,      \* RedToken.token_name
    token_symbol,    \* RedToken.token_symbol
    token_decimals,  \* RedToken.token_decimals
    call,            \* the message executed last, with its caller and arguments
    result,          \* what that message returned
    emitted,         \* the events that message appended to the event log
    grant,           \* observer of one approve: what it allowed, what was moved
    noted,           \* observer: the allowance read before an increase_allowance
    contracts        \* host: the accounts that are deployed contracts

vars == <<admin, total_supply, balances, allowances, token_name, token_symbol,
          token_decimals, call, result, emitted, grant, noted, contracts>>

\* What no message of the ledger writes: the observers and the host's state.
outside == <<grant, noted, contracts>>

\* self.env().is_contract(&to): the host's contract-detection oracle.
is_contract(a) == a \in contracts

metadata == <<admin, total_supply, token_name, token_symbol, token_decimals>>

(* ---- results and events ---- *)

Ok == "Ok"
InsufficientBalance == "InsufficientBalance"
InsufficientAllowance == "InsufficientAllowance"
ZeroRecipientAddress == "ZeroRecipientAddress"
ZeroSenderAddress == "ZeroSenderAddress"
SafeTransferCheckFailed == "SafeTransferCheckFailed"
\* The message panicked on an arithmetic overflow: the host reverts the call,
\* nothing is returned.
Trap == "Trap"

Errors == {InsufficientBalance, InsufficientAllowance, ZeroRecipientAddress,
           ZeroSenderAddress, SafeTransferCheckFailed}

Transfer(from, to, value, data) ==
    [event |-> "Transfer", from |-> from, to |-> to, value |-> value, data |-> data]

Approval(owner, spender, value, data) ==
    [event |-> "Approval", owner |-> owner, spender |-> spender, value |-> value,
     data |-> data]

(* ---- arithmetic on Balance ---- *)

\* a + b on Balance. A build with overflow checks panics when the sum does
\* not fit; a build without them wraps. Both builds are possible outcomes.
Add(a, b) ==
    IF a + b <= MaxAmount THEN {[panic |-> FALSE, value |-> a + b]}
    ELSE {[panic |-> TRUE, value |-> 0],
          [panic |-> FALSE, value |-> (a + b) % Modulus]}

\* a - b on Balance, likewise.
Sub(a, b) ==
    IF a >= b THEN {[panic |-> FALSE, value |-> a - b]}
    ELSE {[panic |-> TRUE, value |-> 0],
          [panic |-> FALSE, value |-> (a - b) % Modulus]}

(* ---- read accessors ---- *)

balance_of(owner) == balances[owner]

allowance(owner, spender) == allowances[<<owner, spender>>]

\* The sum of f over the keys S.
RECURSIVE SumOver(_, _)
SumOver(f, S) ==
    IF S = {} THEN 0
    ELSE LET a == CHOOSE x \in S : TRUE IN f[a] + SumOver(f, S \ {a})

\* The sum of all stored balances.
SumBalances == SumOver(balances, Accounts)

\* The read-only messages of the metadata: total_supply(), token_name(),
\* token_symbol() and token_decimals().
read_total_supply == total_supply
read_token_name == <<"Some", token_name>>
read_token_symbol == <<"Some", token_symbol>>
read_token_decimals == token_decimals

(* ---- outcomes shared by the messages ---- *)

\* return Err(e): nothing was written, nothing was emitted.
Err(e) ==
    /\ result' = e
    /\ emitted' = <<>>
    /\ UNCHANGED <<balances, allowances, metadata>>

\* A panic: the host rolls the call back.
Panic ==
    /\ result' = Trap
    /\ emitted' = <<>>
    /\ UNCHANGED <<balances, allowances, metadata>>

\* new with the name and the symbol stored in each other's field.
new_names_swapped(init_supply, admin_, token_decimals_) ==
    /\ total_supply = init_supply
    /\ admin = admin_
    /\ balances = [a \in Accounts |-> 0]
    /\ allowances = [p \in Accounts \X Accounts |-> 0]
    /\ token_name = "RED"
    /\ token_symbol = "Real Estate DAO"
    /\ token_decimals = token_decimals_
    /\ call = [op |-> "new"]
    /\ result = Ok
    /\ emitted = <<>>

\* new that credits the administrator with the initial supply.
new_seeded(init_supply, admin_, token_decimals_) ==
    /\ total_supply = init_supply
    /\ admin = admin_
    /\ balances = [a \in Accounts |-> IF a = admin_ THEN init_supply ELSE 0]
    /\ allowances = [p \in Accounts \X Accounts |-> 0]
    /\ token_name = "Real Estate DAO"
    /\ token_symbol = "RED"
    /\ token_decimals = token_decimals_
    /\ call = [op |-> "new"]
    /\ result = Ok
    /\ emitted = <<>>

(* ---- constructor ---- *)

new(init_supply, admin_, token_decimals_) ==
    /\ total_supply = init_supply
    /\ admin = admin_
    /\ balances = [a \in Accounts |-> 0]
    /\ allowances = [p \in Accounts \X Accounts |-> 0]
    /\ token_name = "Real Estate DAO"
    /\ token_symbol = "RED"
    /\ token_decimals = token_decimals_
    /\ call = [op |-> "new"]
    /\ result = Ok
    /\ emitted = <<>>

(* ---- variants of the messages, each with one plausible slip ---- *)

\* transfer with the balance check `sender_balance < value`.
transfer_strict(caller, to, value, data) ==
    LET sender == caller
        sender_balance == balance_of(sender)
        recipient_balance == balance_of(to)
    IN  /\ call' = [op |-> "transfer", caller |-> caller, to |-> to,
                    value |-> value, data |-> data]
        /\ IF sender_balance < value THEN Err(InsufficientBalance)
           ELSE IF sender = ZeroAddress THEN Err(ZeroSenderAddress)
           ELSE IF to = ZeroAddress THEN Err(ZeroRecipientAddress)
           ELSE IF is_contract(to) THEN Err(SafeTransferCheckFailed)
           ELSE \E debit \in Sub(sender_balance, value),
                   credit \in Add(recipient_balance, value) :
                    IF debit.panic \/ credit.panic THEN Panic
                    ELSE /\ balances' = [[balances EXCEPT ![sender] = debit.value]
                                             EXCEPT ![to] = credit.value]
                         /\ emitted' = <<Transfer(None, Some(to), value, data)>>
                         /\ result' = Ok
                         /\ UNCHANGED <<allowances, metadata>>

\* transfer with the zero-address checks ahead of the balance check.
transfer_zero_first(caller, to, value, data) ==
    LET sender == caller
        sender_balance == balance_of(sender)
        recipient_balance == balance_of(to)
    IN  /\ call' = [op |-> "transfer", caller |-> caller, to |-> to,
                    value |-> value, data |-> data]
        /\ IF sender = ZeroAddress THEN Err(ZeroSenderAddress)
           ELSE IF to = ZeroAddress THEN Err(ZeroRecipientAddress)
           ELSE IF sender_balance <= value THEN Err(InsufficientBalance)
           ELSE IF is_contract(to) THEN Err(SafeTransferCheckFailed)
           ELSE \E debit \in Sub(sender_balance, value),
                   credit \in Add(recipient_balance, value) :
                    IF debit.panic \/ credit.panic THEN Panic
                    ELSE /\ balances' = [[balances EXCEPT ![sender] = debit.value]
                                             EXCEPT ![to] = credit.value]
                         /\ emitted' = <<Transfer(None, Some(to), value, data)>>
                         /\ result' = Ok
                         /\ UNCHANGED <<allowances, metadata>>

\* transfer_from without the check of `from`'s balance.
transfer_from_unchecked(caller, from, to, value, data) ==
    LET allowance_ == allowance(from, caller)
        from_balance == balance_of(from)
        to_balance == balance_of(to)
    IN  /\ call' = [op |-> "transfer_from", caller |-> caller, from |-> from,
                    to |-> to, value |-> value, data |-> data]
        /\ IF allowance_ < value THEN Err(InsufficientBalance)
           ELSE IF from = ZeroAddress THEN Err(ZeroSenderAddress)
           ELSE IF to = ZeroAddress THEN Err(ZeroRecipientAddress)
           ELSE \E debit \in Sub(from_balance, value),
                   credit \in Add(to_balance, value) :
                    IF debit.panic \/ credit.panic THEN Panic
                    ELSE /\ balances' = [[balances EXCEPT ![from] = debit.value]
                                             EXCEPT ![to] = credit.value]
                         /\ emitted' = <<Transfer(Some(from), None, value, data),
                                         Approval(from, caller, value, data)>>
                         /\ result' = Ok
                         /\ UNCHANGED <<allowances, metadata>>

\* transfer_from that takes what it moved off the caller's allowance.
transfer_from_spending(caller, from, to, value, data) ==
    LET allowance_ == allowance(from, caller)
        from_balance == balance_of(from)
        to_balance == balance_of(to)
    IN  /\ call' = [op |-> "transfer_from", caller |-> caller, from |-> from,
                    to |-> to, value |-> value, data |-> data]
        /\ IF allowance_ < value THEN Err(InsufficientBalance)
           ELSE IF from_balance < value THEN Err(InsufficientBalance)
           ELSE IF from = ZeroAddress THEN Err(ZeroSenderAddress)
           ELSE IF to = ZeroAddress THEN Err(ZeroRecipientAddress)
           ELSE \E debit \in Sub(from_balance, value),
                   credit \in Add(to_balance, value) :
                    IF debit.panic \/ credit.panic THEN Panic
                    ELSE /\ balances' = [[balances EXCEPT ![from] = debit.value]
                                             EXCEPT ![to] = credit.value]
                         /\ allowances' = [allowances EXCEPT
                                ![<<from, caller>>] = allowance_ - value]
                         /\ emitted' = <<Transfer(Some(from), None, value, data),
                                         Approval(from, caller, value, data)>>
                         /\ result' = Ok
                         /\ UNCHANGED metadata

\* approve without the check of the spender's address.
approve_any_spender(caller, spender, value) ==
    /\ call' = [op |-> "approve", caller |-> caller, spender |-> spender,
                value |-> value]
    /\ IF caller = ZeroAddress THEN Err(ZeroSenderAddress)
       ELSE /\ allowances' = [allowances EXCEPT ![<<caller, spender>>] = value]
            /\ emitted' = <<Approval(caller, spender, value, <<>>)>>
            /\ result' = Ok
            /\ UNCHANGED <<balances, metadata>>

\* approve that writes the allowance before it checks the spender's address.
approve_write_first(caller, spender, value) ==
    /\ call' = [op |-> "approve", caller |-> caller, spender |-> spender,
                value |-> value]
    /\ IF caller = ZeroAddress THEN Err(ZeroSenderAddress)
       ELSE /\ allowances' = [allowances EXCEPT ![<<caller, spender>>] = value]
            /\ UNCHANGED <<balances, metadata>>
            /\ IF spender = ZeroAddress
               THEN result' = ZeroRecipientAddress /\ emitted' = <<>>
               ELSE /\ result' = Ok
                    /\ emitted' = <<Approval(caller, spender, value, <<>>)>>

\* approve that adds `value` to the current allowance.
approve_additive(caller, spender, value) ==
    /\ call' = [op |-> "approve", caller |-> caller, spender |-> spender,
                value |-> value]
    /\ IF caller = ZeroAddress THEN Err(ZeroSenderAddress)
       ELSE IF spender = ZeroAddress THEN Err(ZeroRecipientAddress)
       ELSE /\ allowances' = [allowances EXCEPT ![<<caller, spender>>] =
                                 (allowance(caller, spender) + value) % Modulus]
            /\ emitted' = <<Approval(caller, spender, value, <<>>)>>
            /\ result' = Ok
            /\ UNCHANGED <<balances, metadata>>

\* decrease_allowance with the allowance check `current_allowence <= delta_value`.
decrease_allowance_exclusive(caller, spender, delta_value) ==
    LET current_allowence == allowance(caller, spender)
    IN  /\ call' = [op |-> "decrease_allowance", caller |-> caller,
                    spender |-> spender, delta_value |-> delta_value]
        /\ IF current_allowence <= delta_value THEN Err(InsufficientAllowance)
           ELSE IF caller = ZeroAddress THEN Err(ZeroSenderAddress)
           ELSE IF spender = ZeroAddress THEN Err(ZeroRecipientAddress)
           ELSE \E diff \in Sub(current_allowence, delta_value) :
                    IF diff.panic THEN Panic
                    ELSE /\ allowances' =
                              [allowances EXCEPT ![<<caller, spender>>] = diff.value]
                         /\ emitted' =
                              <<Approval(caller, spender, delta_value, <<>>)>>
                         /\ result' = Ok
                         /\ UNCHANGED <<balances, metadata>>

\* transfer_from without the check of `to` against the zero account.
transfer_from_any_recipient(caller, from, to, value, data) ==
    LET allowance_ == allowance(from, caller)
        from_balance == balance_of(from)
        to_balance == balance_of(to)
    IN  /\ call' = [op |-> "transfer_from", caller |-> caller, from |-> from,
                    to |-> to, value |-> value, data |-> data]
        /\ IF allowance_ < value THEN Err(InsufficientBalance)
           ELSE IF from_balance < value THEN Err(InsufficientBalance)
           ELSE IF from = ZeroAddress THEN Err(ZeroSenderAddress)
           ELSE \E debit \in Sub(from_balance, value),
                   credit \in Add(to_balance, value) :
                    IF debit.panic \/ credit.panic THEN Panic
                    ELSE /\ balances' = [[balances EXCEPT ![from] = debit.value]
                                             EXCEPT ![to] = credit.value]
                         /\ emitted' = <<Transfer(Some(from), None, value, data),
                                         Approval(from, caller, value, data)>>
                         /\ result' = Ok
                         /\ UNCHANGED <<allowances, metadata>>

\* increase_allowance that stores the sum under the key (spender, caller).
increase_allowance_key_swapped(caller, spender, delta_value) ==
    LET current_allowence == allowance(caller, spender)
    IN  /\ call' = [op |-> "increase_allowance", caller |-> caller,
                    spender |-> spender, delta_value |-> delta_value]
        /\ IF caller = ZeroAddress THEN Err(ZeroSenderAddress)
           ELSE IF spender = ZeroAddress THEN Err(ZeroRecipientAddress)
           ELSE \E sum \in Add(current_allowence, delta_value) :
                    IF sum.panic THEN Panic
                    ELSE /\ allowances' =
                              [allowances EXCEPT ![<<spender, caller>>] = sum.value]
                         /\ emitted' =
                              <<Approval(caller, spender, delta_value, <<>>)>>
                         /\ result' = Ok
                         /\ UNCHANGED <<balances, metadata>>

\* decrease_allowance without the check of the allowance against the delta.
decrease_allowance_unchecked(caller, spender, delta_value) ==
    LET current_allowence == allowance(caller, spender)
    IN  /\ call' = [op |-> "decrease_allowance", caller |-> caller,
                    spender |-> spender, delta_value |-> delta_value]
        /\ IF caller = ZeroAddress THEN Err(ZeroSenderAddress)
           ELSE IF spender = ZeroAddress THEN Err(ZeroRecipientAddress)
           ELSE \E diff \in Sub(current_allowence, delta_value) :
                    IF diff.panic THEN Panic
                    ELSE /\ allowances' =
                              [allowances EXCEPT ![<<caller, spender>>] = diff.value]
                         /\ emitted' =
                              <<Approval(caller, spender, delta_value, <<>>)>>
                         /\ result' = Ok
                         /\ UNCHANGED <<balances, metadata>>

\* transfer without the is_contract check of `to`.
transfer_unsafe(caller, to, value, data) ==
    LET sender == caller
        sender_balance == balance_of(sender)
        recipient_balance == balance_of(to)
    IN  /\ call' = [op |-> "transfer", caller |-> caller, to |-> to,
                    value |-> value, data |-> data]
        /\ IF sender_balance <= value THEN Err(InsufficientBalance)
           ELSE IF sender = ZeroAddress THEN Err(ZeroSenderAddress)
           ELSE IF to = ZeroAddress THEN Err(ZeroRecipientAddress)
           ELSE \E debit \in Sub(sender_balance, value),
                   credit \in Add(recipient_balance, value) :
                    IF debit.panic \/ credit.panic THEN Panic
                    ELSE /\ balances' = [[balances EXCEPT ![sender] = debit.value]
                                             EXCEPT ![to] = credit.value]
                         /\ emitted' = <<Transfer(None, Some(to), value, data)>>
                         /\ result' = Ok
                         /\ UNCHANGED <<allowances, metadata>>

(* ---- messages ---- *)

transfer(caller, to, value, data) ==
    LET sender == caller
        sender_balance == balance_of(sender)
        recipient_balance == balance_of(to)
    IN  /\ call' = [op |-> "transfer", caller |-> caller, to |-> to,
                    value |-> value, data |-> data]
        /\ IF sender_balance <= value THEN Err(InsufficientBalance)
           ELSE IF sender = ZeroAddress THEN Err(ZeroSenderAddress)
           ELSE IF to = ZeroAddress THEN Err(ZeroRecipientAddress)
           ELSE IF is_contract(to) THEN Err(SafeTransferCheckFailed)
           ELSE \E debit \in Sub(sender_balance, value),
                   credit \in Add(recipient_balance, value) :
                    IF debit.panic \/ credit.panic THEN Panic
                    ELSE /\ balances' = [[balances EXCEPT ![sender] = debit.value]
                                             EXCEPT ![to] = credit.value]
                         /\ emitted' = <<Transfer(None, Some(to), value, data)>>
                         /\ result' = Ok
                         /\ UNCHANGED <<allowances, metadata>>

transfer_from(caller, from, to, value, data) ==
    LET allowance_ == allowance(from, caller)
        from_balance == balance_of(from)
        to_balance == balance_of(to)
    IN  /\ call' = [op |-> "transfer_from", caller |-> caller, from |-> from,
                    to |-> to, value |-> value, data |-> data]
        /\ IF allowance_ < value THEN Err(InsufficientBalance)
           ELSE IF from_balance < value THEN Err(InsufficientBalance)
           ELSE IF from = ZeroAddress THEN Err(ZeroSenderAddress)
           ELSE IF to = ZeroAddress THEN Err(ZeroRecipientAddress)
           ELSE \E debit \in Sub(from_balance, value),
                   credit \in Add(to_balance, value) :
                    IF debit.panic \/ credit.panic THEN Panic
                    ELSE /\ balances' = [[balances EXCEPT ![from] = debit.value]
                                             EXCEPT ![to] = credit.value]
                         /\ emitted' = <<Transfer(Some(from), None, value, data),
                                         Approval(from, caller, value, data)>>
                         /\ result' = Ok
                         /\ UNCHANGED <<allowances, metadata>>

approve(caller, spender, value) ==
    /\ call' = [op |-> "approve", caller |-> caller, spender |-> spender,
                value |-> value]
    /\ IF caller = ZeroAddress THEN Err(ZeroSenderAddress)
       ELSE IF spender = ZeroAddress THEN Err(ZeroRecipientAddress)
       ELSE /\ allowances' = [allowances EXCEPT ![<<caller, spender>>] = value]
            /\ emitted' = <<Approval(caller, spender, value, <<>>)>>
            /\ result' = Ok
            /\ UNCHANGED <<balances, metadata>>

increase_allowance(caller, spender, delta_value) ==
    LET current_allowence == allowance(caller, spender)
    IN  /\ call' = [op |-> "increase_allowance", caller |-> caller,
                    spender |-> spender, delta_value |-> delta_value]
        /\ IF caller = ZeroAddress THEN Err(ZeroSenderAddress)
           ELSE IF spender = ZeroAddress THEN Err(ZeroRecipientAddress)
           ELSE \E sum \in Add(current_allowence, delta_value) :
                    IF sum.panic THEN Panic
                    ELSE /\ allowances' =
                              [allowances EXCEPT ![<<caller, spender>>] = sum.value]
                         /\ emitted' =
                              <<Approval(caller, spender, delta_value, <<>>)>>
                         /\ result' = Ok
                         /\ UNCHANGED <<balances, metadata>>

decrease_allowance(caller, spender, delta_value) ==
    LET current_allowence == allowance(caller, spender)
    IN  /\ call' = [op |-> "decrease_allowance", caller |-> caller,
                    spender |-> spender, delta_value |-> delta_value]
        /\ IF current_allowence < delta_value THEN Err(InsufficientAllowance)
           ELSE IF caller = ZeroAddress THEN Err(ZeroSenderAddress)
           ELSE IF spender = ZeroAddress THEN Err(ZeroRecipientAddress)
           ELSE \E diff \in Sub(current_allowence, delta_value) :
                    IF diff.panic THEN Panic
                    ELSE /\ allowances' =
                              [allowances EXCEPT ![<<caller, spender>>] = diff.value]
                         /\ emitted' =
                              <<Approval(caller, spender, delta_value, <<>>)>>
                         /\ result' = Ok
                         /\ UNCHANGED <<balances, metadata>>

(* ---- the ledger from construction ---- *)

\* No approve is under observation.
NoGrant == [active |-> FALSE, owner |-> ZeroAddress, spender |-> ZeroAddress,
            value |-> 0, moved |-> 0]

Init ==
    /\ \E init_supply \in InitSupplies, admin_ \in Admins,
          token_decimals_ \in Decimals :
           new(init_supply, admin_, token_decimals_)
    /\ grant = NoGrant
    /\ noted = 0
    /\ contracts = Contracts

Next ==
    \/ \E caller \in Accounts, to \in Accounts, value \in Amounts, data \in Datas :
           transfer(caller, to, value, data) /\ UNCHANGED outside
    \/ \E caller \in Accounts, from \in Accounts, to \in Accounts,
          value \in Amounts, data \in Datas :
           transfer_from(caller, from, to, value, data) /\ UNCHANGED outside
    \/ \E caller \in Accounts, spender \in Accounts, value \in Amounts :
           approve(caller, spender, value) /\ UNCHANGED outside
    \/ \E caller \in Accounts, spender \in Accounts, delta_value \in Amounts :
           increase_allowance(caller, spender, delta_value) /\ UNCHANGED outside
    \/ \E caller \in Accounts, spender \in Accounts, delta_value \in Amounts :
           decrease_allowance(caller, spender, delta_value) /\ UNCHANGED outside

Spec == Init /\ [][Next]_vars

(* ---- one message on an arbitrary ledger ---- *)

\* The pairs <<owner, spender>> the messages can write: approve,
\* increase_allowance and decrease_allowance return before the write when
\* either account is the zero account.
NonZeroPairs ==
    {p \in Accounts \X Accounts : p[1] # ZeroAddress /\ p[2] # ZeroAddress}

\* Any ledger the storage can hold before a message runs: any balances, and
\* any allowances on the pairs that can be written; the host may or may not
\* know a contract.
InitLedger ==
    /\ total_supply \in InitSupplies
    /\ admin \in Admins
    /\ token_name = "Real Estate DAO"
    /\ token_symbol = "RED"
    /\ token_decimals \in Decimals
    /\ balances \in [Accounts -> Amounts]
    /\ \E nz \in [NonZeroPairs -> Amounts] :
           allowances = [p \in Accounts \X Accounts |->
                            IF p \in NonZeroPairs THEN nz[p] ELSE 0]
    /\ call = [op |-> "none"]
    /\ result = Ok
    /\ emitted = <<>>
    /\ grant = NoGrant
    /\ noted = 0
    /\ contracts \in SUBSET Contracts

\* Exactly one message runs on the ledger.
NextLedger ==
    \/ /\ call.op = "none"
       /\ \E caller \in Accounts, to \in Accounts, value \in Amounts,
             data \in Datas :
              transfer(caller, to, value, data) /\ UNCHANGED outside
    \/ /\ call.op = "none"
       /\ \E caller \in Accounts, from \in Accounts, to \in Accounts,
             value \in Amounts, data \in Datas :
              transfer_from(caller, from, to, value, data) /\ UNCHANGED outside
    \/ /\ call.op = "none"
       /\ \E caller \in Accounts, spender \in Accounts, value \in Amounts :
              approve(caller, spender, value) /\ UNCHANGED outside
    \/ /\ call.op = "none"
       /\ \E caller \in Accounts, spender \in Accounts,
             delta_value \in Amounts :
              increase_allowance(caller, spender, delta_value)
              /\ UNCHANGED outside
    \/ /\ call.op = "none"
       /\ \E caller \in Accounts, spender \in Accounts,
             delta_value \in Amounts :
              decrease_allowance(caller, spender, delta_value)
              /\ UNCHANGED outside

SpecLedger == InitLedger /\ [][NextLedger]_vars

(* ---- an approve and the delegated transfers made under it ---- *)

\* Any balances and no allowance yet.
InitDelegated ==
    /\ total_supply \in InitSupplies
    /\ admin \in Admins
    /\ token_name = "Real Estate DAO"
    /\ token_symbol = "RED"
    /\ token_decimals \in Decimals
    /\ balances \in [Accounts -> Amounts]
    /\ allowances = [p \in Accounts \X Accounts |-> 0]
    /\ call = [op |-> "none"]
    /\ result = Ok
    /\ emitted = <<>>
    /\ grant = NoGrant
    /\ noted = 0
    /\ contracts = Contracts

\* An owner calls approve(spender, value); the observer notes a successful one.
delegated_approve(caller, spender, value) ==
    /\ ~grant.active
    /\ approve(caller, spender, value)
    /\ grant' = IF result' = Ok
                THEN [active |-> TRUE, owner |-> caller, spender |-> spender,
                      value |-> value, moved |-> 0]
                ELSE grant
    /\ UNCHANGED <<noted, contracts>>

\* The approved spender calls transfer_from on the owner's account, naming
\* another account as recipient; the owner makes no further call. The observer
\* adds up what the successful calls moved.
delegated_transfer_from(to, value, data) ==
    /\ grant.active
    /\ grant.moved <= grant.value
    /\ to # grant.owner
    /\ transfer_from(grant.spender, grant.owner, to, value, data)
    /\ grant' = IF result' = Ok THEN [grant EXCEPT !.moved = @ + value] ELSE grant
    /\ UNCHANGED <<noted, contracts>>

NextDelegated ==
    \/ \E caller \in Accounts, spender \in Accounts, value \in Amounts :
           delegated_approve(caller, spender, value)
    \/ \E to \in Accounts, value \in Amounts, data \in Datas :
           delegated_transfer_from(to, value, data)

SpecDelegated == InitDelegated /\ [][NextDelegated]_vars

(* ---- increase_allowance followed by decrease_allowance ---- *)

\* A caller calls increase_allowance(spender, delta_value) on any ledger; the
\* observer notes the allowance the call found.
round_trip_increase(caller, spender, delta_value) ==
    /\ call.op = "none"
    /\ increase_allowance(caller, spender, delta_value)
    /\ noted' = allowance(caller, spender)
    /\ UNCHANGED <<grant, contracts>>

\* The same caller then calls decrease_allowance with the same spender and
\* the same delta.
round_trip_decrease ==
    /\ call.op = "increase_allowance"
    /\ decrease_allowance(call.caller, call.spender, call.delta_value)
    /\ UNCHANGED outside

NextRoundTrip ==
    \/ \E caller \in Accounts, spender \in Accounts, delta_value \in Amounts :
           round_trip_increase(caller, spender, delta_value)
    \/ round_trip_decrease

SpecRoundTrip == InitLedger /\ [][NextRoundTrip]_vars

(* ---- what the claims are stated with ---- *)

IsTransfer(c) == c.op = "transfer"
IsTransferFrom(c) == c.op = "transfer_from"
IsAllowanceOp(c) ==
    c.op \in {"approve", "increase_allowance", "decrease_allowance"}

\* The account a message debits or speaks for, and the account it names as
\* recipient or spender.
SenderOf(c) == IF IsTransferFrom(c) THEN c.from ELSE c.caller
RecipientOf(c) == IF IsAllowanceOp(c) THEN c.spender ELSE c.to
IsMessage(c) == IsTransfer(c) \/ IsTransferFrom(c) \/ IsAllowanceOp(c)

(* ---- C1 ---- *)

\* C1: every successful transfer and every successful transfer_from leaves
\* the sum of all balances unchanged, also when `to` is the debited account.
C1_Conservation ==
    [][((IsTransfer(call') \/ IsTransferFrom(call')) /\ result' = Ok)
       => SumOver(balances', Accounts) = SumBalances]_vars

(* ---- C2 ---- *)

\* C2: in every state reachable from new(...) by the public messages the sum
\* of all stored balances is at most total_supply.
C2_SumWithinSupply == SumBalances <= total_supply

\* A delegated transfer between two accounts has gone through on a ledger
\* built with total_supply = 0.
C2_Witness ==
    /\ IsTransferFrom(call)
    /\ result = Ok
    /\ call.from # call.to
    /\ total_supply = 0

(* ---- C3 ---- *)

\* C3: after owner's approve(spender, v), and while owner makes no further
\* approve or increase_allowance for that spender, the successful
\* transfer_from calls of spender move at most v out of owner's balance.
C3_SpendingBoundedByAllowance == grant.active => grant.moved <= grant.value

(* ---- C4 ---- *)

EarlierChecksPass(c) ==
    IF IsTransfer(c) THEN balance_of(c.caller) > c.value
    ELSE IF IsTransferFrom(c)
         THEN allowance(c.from, c.caller) >= c.value /\ balance_of(c.from) >= c.value
    ELSE IF c.op = "decrease_allowance"
         THEN allowance(c.caller, c.spender) >= c.delta_value
    ELSE TRUE

\* The error of the check that fails ahead of the address checks.
EarlierError(c) ==
    IF c.op = "decrease_allowance" THEN InsufficientAllowance
    ELSE InsufficientBalance

C6_AllOrNothing ==
    [][(IsMessage(call') /\ result' \in Errors)
       => /\ UNCHANGED <<balances, allowances, total_supply>>
          /\ emitted' = <<>>]_vars

\* decrease_allowance was refused on a ledger that holds balances and
\* allowances.
C6_Witness ==
    /\ call.op = "decrease_allowance"
    /\ result = InsufficientAllowance
    /\ SumBalances > 0
    /\ \E p \in NonZeroPairs : allowances[p] > 0

(* ---- C7 ---- *)

TransferVerdict(c) ==
    IF ~(balance_of(c.caller) > c.value) THEN InsufficientBalance
    ELSE IF c.caller = ZeroAddress THEN ZeroSenderAddress
    ELSE IF c.to = ZeroAddress THEN ZeroRecipientAddress
    ELSE IF is_contract(c.to) THEN SafeTransferCheckFailed
    ELSE Ok

C9_InsufficientAllowanceError ==
    [][(IsTransferFrom(call')
        /\ allowance(call'.from, call'.caller) < call'.value)
       => result' = InsufficientAllowance]_vars

(* ---- C10 ---- *)

\* C10: approve(s, v) by a non-zero caller for a non-zero spender succeeds
\* and leaves allowance(caller, s) = v, whatever the allowance was.
C10_ApproveOverwrites ==
    [][(/\ call'.op = "approve"
        /\ call'.caller # ZeroAddress
        /\ call'.spender # ZeroAddress)
       => /\ result' = Ok
          /\ allowances'[<<call'.caller, call'.spender>>] = call'.value]_vars

\* An approve of a positive value went through and the allowance reads it.
C10_Witness ==
    /\ call.op = "approve"
    /\ result = Ok
    /\ call.value > 0
    /\ allowance(call.caller, call.spender) = call.value

(* ---- C11 ---- *)

\* C11: for a non-zero caller and a non-zero spender, and a prior allowance a
\* with a + d representable, increase_allowance(s, d) succeeds and
\* decrease_allowance(s, d) after it succeeds and leaves allowance(caller, s)
\* equal to a.
C11_IncreaseDecreaseRoundTrip ==
    (/\ call.op \in {"increase_allowance", "decrease_allowance"}
     /\ call.caller # ZeroAddress
     /\ call.spender # ZeroAddress
     /\ noted + call.delta_value <= MaxAmount)
    => /\ result = Ok
       /\ allowance(call.caller, call.spender) =
              IF call.op = "increase_allowance" THEN noted + call.delta_value
              ELSE noted

\* A positive allowance was raised by a positive delta and lowered again.
C11_Witness ==
    /\ call.op = "decrease_allowance"
    /\ result = Ok
    /\ call.delta_value > 0
    /\ noted > 0
    /\ allowance(call.caller, call.spender) = noted

(* ---- C12 ---- *)

\* C12: every Transfer event appended by a successful transfer records
\* from = the caller and to = the recipient, and every Transfer event appended
\* by a successful transfer_from records from = `from` and to = `to`, each with
\* the amount and the data of the call.
C12_TransferEventNamesBoth ==
    ((IsTransfer(call) \/ IsTransferFrom(call)) /\ result = Ok)
    => \A i \in 1..Len(emitted) :
           emitted[i].event = "Transfer"
           => emitted[i] = Transfer(Some(SenderOf(call)), Some(call.to),
                                    call.value, call.data)

(* ---- C13 ---- *)

\* C13: after any sequence of messages from new(init_supply, admin,
\* token_decimals), successful or failing, total_supply() returns init_supply,
\* token_decimals() returns token_decimals, token_name() returns
\* Some("Real Estate DAO") and token_symbol() returns Some("RED").
C13_MetadataFixed ==
    /\ \A init_supply \in InitSupplies, token_decimals_ \in Decimals :
           new(init_supply, admin, token_decimals_)
           => /\ read_total_supply = init_supply
              /\ read_token_decimals = token_decimals_
    /\ [](/\ read_token_name = <<"Some", "Real Estate DAO">>
          /\ read_token_symbol = <<"Some", "RED">>)
    /\ [][/\ read_total_supply' = read_total_supply
          /\ read_token_decimals' = read_token_decimals]_vars

\* On a ledger built with a positive supply an approve has gone through and a
\* transfer was then refused.
C13_Witness ==
    /\ IsTransfer(call)
    /\ result = InsufficientBalance
    /\ total_supply = MaxAmount
    /\ \E p \in NonZeroPairs : allowances[p] > 0

(* ---- C14 ---- *)

\* The zero account holds no balance and no allowance, as owner or spender.
NullHoldsNothing ==
    /\ balance_of(ZeroAddress) = 0
    /\ \A x \in Accounts :
           allowance(ZeroAddress, x) = 0 /\ allowance(x, ZeroAddress) = 0

\* C14: from a ledger where the zero account holds no balance and no
\* allowance as owner or spender, no message by any caller leaves it holding
\* one; so it holds none after any sequence of messages.
C14_NullAccountHoldsNothing ==
    [][NullHoldsNothing => NullHoldsNothing']_vars

\* A delegated transfer of a positive amount, covered by balance and
\* allowance, named the zero account as recipient and was refused.
C14_Witness ==
    /\ IsTransferFrom(call)
    /\ call.to = ZeroAddress
    /\ call.value > 0
    /\ result = ZeroRecipientAddress
    /\ NullHoldsNothing

(* ---- C15 ---- *)

C16_SelfTransferNeutral ==
    [][(/\ IsTransfer(call') \/ IsTransferFrom(call')
        /\ result' = Ok
        /\ call'.to = SenderOf(call'))
       => balances'[call'.to] = balances[call'.to]]_vars

(* ---- C17 ---- *)

\* C17: in any step from any ledger, the balance of an account X decreases
\* only if X itself called transfer, or a caller c with
\* allowance(X, c) >= value called transfer_from with from = X; and
\* allowance(o, s) changes only through an approve, increase_allowance or
\* decrease_allowance call made by o with spender s.
C17_Authorization ==
    [][/\ \A X \in Accounts :
              balances'[X] < balances[X]
              => \/ IsTransfer(call') /\ call'.caller = X
                 \/ /\ IsTransferFrom(call')
                    /\ call'.from = X
                    /\ allowance(X, call'.caller) >= call'.value
       /\ \A o \in Accounts, s \in Accounts :
              allowances'[<<o, s>>] # allowances[<<o, s>>]
              => /\ IsAllowanceOp(call')
                 /\ call'.caller = o
                 /\ call'.spender = s]_vars

(* ---- C18 ---- *)

\* C18: approve, increase_allowance and decrease_allowance change at most the
\* entry allowance(caller, spender) and leave every balance and every other
\* allowance unchanged; transfer changes at most the balances of the caller
\* and `to`, transfer_from at most those of `from` and `to`.
C18_FrameConditions ==
    [][/\ IsAllowanceOp(call')
          => /\ balances' = balances
             /\ \A p \in Accounts \X Accounts :
                    p # <<call'.caller, call'.spender>>
                    => allowances'[p] = allowances[p]
       /\ (IsTransfer(call') \/ IsTransferFrom(call'))
          => \A a \in Accounts \ {SenderOf(call'), call'.to} :
                 balances'[a] = balances[a]]_vars

\* increase_allowance has raised one entry while the allowance of the
\* opposite pair, and some balance, were there to be left alone.
C18_Witness ==
    /\ call.op = "increase_allowance"
    /\ result = Ok
    /\ call.delta_value > 0
    /\ call.caller # call.spender
    /\ allowance(call.spender, call.caller) > 0
    /\ SumBalances > 0

(* ---- C19 ---- *)

\* C19: a message gets past its checks to its subtraction only when the
\* minuend is at least the subtrahend (the sender's balance and value in
\* transfer, from's balance and value in transfer_from, the allowance and
\* delta in decrease_allowance), so every stored balance and allowance stays
\* an Amount; and decrease_allowance with a delta above the allowance
\* returns InsufficientAllowance and changes nothing.
C19_NoUnderflow ==
    [][/\ (IsTransfer(call') /\ result' \notin Errors)
          => balance_of(call'.caller) >= call'.value
       /\ (IsTransferFrom(call') /\ result' \notin Errors)
          => balance_of(call'.from) >= call'.value
       /\ (call'.op = "decrease_allowance" /\ result' \notin Errors)
          => allowance(call'.caller, call'.spender) >= call'.delta_value
       /\ (/\ call'.op = "decrease_allowance"
           /\ call'.delta_value > allowance(call'.caller, call'.spender))
          => /\ result' = InsufficientAllowance
             /\ UNCHANGED <<balances, allowances>>
       /\ balances' \in [Accounts -> Amounts]
       /\ allowances' \in [Accounts \X Accounts -> Amounts]]_vars

\* An owner asked to lower a positive allowance by more than it holds and
\* was refused.
C19_Witness ==
    /\ call.op = "decrease_allowance"
    /\ call.caller # ZeroAddress
    /\ call.spender # ZeroAddress
    /\ allowance(call.caller, call.spender) > 0
    /\ call.delta_value > allowance(call.caller, call.spender)
    /\ result = InsufficientAllowance

(* ---- C20 ---- *)

\* C20 as claimed: no successful transfer and no successful transfer_from
\* increases the balance of an account the host reports as a contract.
C20_NoTokensIntoContract ==
    [][((IsTransfer(call') \/ IsTransferFrom(call')) /\ result' = Ok)
       => \A a \in Accounts :
              is_contract(a) => balances'[a] <= balances[a]]_vars

\* C20 as amended: no successful transfer increases the balance of an
\* account the host reports as a contract.
C20_NoTransferIntoContract ==
    [][(IsTransfer(call') /\ result' = Ok)
       => \A a \in Accounts :
              is_contract(a) => balances'[a] <= balances[a]]_vars

\* A funded account's transfer of a positive amount to a contract was
\* refused and the contract's balance is as it was.
C20_Witness ==
    /\ IsTransfer(call)
    /\ is_contract(call.to)
    /\ call.caller \notin {ZeroAddress, call.to}
    /\ call.value > 0
    /\ balance_of(call.caller) > call.value
    /\ result = SafeTransferCheckFailed

====
